---- MODULE Spec2Model ----
(***************************************************************************)
(* create-android-ndk.py: download an Android NDK, unpack it, prune the    *)
(* tree down to one toolchain / STL / compiler version / ABI / API level / *)
(* architecture and pack the rest.                                         *)
(*                                                                         *)
(* Strings are sequences of tokens (<<"arm", "-4.9">> is 'arm-4.9'), so    *)
(* that str.replace and str.format are computed and not assumed.  A flag   *)
(* that was not given (None) or given empty is the empty sequence: both    *)
(* are falsy for the `not args.x` tests of the script.                     *)
(*                                                                         *)
(* The script is one sequential process; pc is the statement it is at and  *)
(* exit_msg the message it ended with (pc then stays where it ended).      *)
(* Each for-loop takes one step per entry, so that a run that ends inside  *)
(* a loop shows what it had deleted by then.  The content of a directory   *)
(* of the unpacked kit enters the state when the script first reads it;    *)
(* a listing is dropped from the state once its loop is over, the script   *)
(* never reading it again.                                                 *)
(***************************************************************************)
EXTENDS Integers, Sequences, FiniteSets, TLC

VARIABLES
  pc,                  \* position of the script
  exit_msg,            \* why the run ended: "" while running or after success
  args,                \* argparse namespace
  platform_system,     \* platform.system()
  url, sha1,           \* FileToDownload.url / .sha1
  local_file,          \* android_archive_local: "absent" or the sha1 of its content
  i,                   \* loop variable of real_file_download
  unpacked,            \* the archive has been extracted into unpack_dir
  fs,                  \* directory contents of the unpacked tree, by parent directory
  toolchain, stl_suffix,
  toolchains_list, stl_list, versions_list, abi_list, api_list, arch_list,
  x,                   \* position of the running for-loop in its list
  toolchain_found, stl_found, found,
  android_pruned_name, \* the output name built so far
  pruned_archive       \* name of the archive written into _pruned, <<>> if none

vars == <<pc, exit_msg, args, platform_system, url, sha1, local_file, i,
          unpacked, fs, toolchain, stl_suffix, toolchains_list, stl_list,
          versions_list, abi_list, api_list, arch_list, x, toolchain_found,
          stl_found, found, android_pruned_name, pruned_archive>>

----------------------------------------------------------------------------
(* Bounds *)

\* longest directory listing os.listdir returns in the model
MaxList == 3

----------------------------------------------------------------------------
(* Strings *)

None == <<>>

Range(s) == {s[k] : k \in 1..Len(s)}

Count(s, e) == Cardinality({k \in 1..Len(s) : s[k] = e})

\* str.replace(old, new) on tokens: every occurrence is replaced
RECURSIVE replace(_, _, _)
replace(s, old, new) ==
  IF s = <<>> THEN <<>>
  ELSE <<IF Head(s) = old THEN new ELSE Head(s)>> \o replace(Tail(s), old, new)

\* seeded fault: the two parts in the wrong order
format_swapped(a, b) == b \o <<"-">> \o a

\* '{}-{}'.format(a, b)
format_dash(a, b) == a \o <<"-">> \o b

\* str.endswith on tokens
endswith(s, suffix) == Len(s) > 0 /\ s[Len(s)] = suffix

----------------------------------------------------------------------------
(* Inputs of a run *)

\* the digest of a file whose content is not the expected archive
BadDigest == "da39a3ee5e6b4b0d3255bfef95601890afd80709"

ToolchainArgs == {None, <<"arm", "-clang">>, <<"arm", "-4.9">>}
StlArgs == {None, <<"system">>, <<"system_re">>, <<"gabi++_shared">>,
            <<"gabi++_static">>, <<"stlport_shared">>, <<"stlport_static">>,
            <<"gnustl_shared">>, <<"gnustl_static">>, <<"c++_static">>,
            <<"c++_shared">>, <<"libc++">>, <<"gnustl">>}
CompilerVersionArgs == {None, <<"clang">>, <<"4.9">>}
AbiNameArgs == {None, <<"armeabi">>}
ApiLevelArgs == {None, <<"9">>}
ArchNameArgs == {None, <<"arm">>}
\* choices of --ndk-version; None when the flag is not given
NdkVersionChoices == {<<"r10e">>, <<"r11c">>, <<"r15c">>, <<"r16b">>}
NdkVersionArgs == NdkVersionChoices \cup {None}
Platforms == {"Linux", "Darwin", "Windows"}

Args == [toolchain : ToolchainArgs, stl : StlArgs,
         compiler_version : CompilerVersionArgs, abi_name : AbiNameArgs,
         api_level : ApiLevelArgs, arch_name : ArchNameArgs,
         ndk_version : NdkVersionArgs]

\* The runs explored: every combination of the selection flags on r16b/Linux,
\* and every kit version on every host platform with one usual selection.
UsualSelection(a) ==
  /\ a.toolchain = <<"arm", "-clang">> /\ a.compiler_version = <<"clang">>
  /\ a.stl = <<"c++_shared">> /\ a.abi_name = None
  /\ a.api_level = <<"9">> /\ a.arch_name = <<"arm">>
Runs ==
  {run \in [args : Args, platform : Platforms] :
     \/ run.args.ndk_version = <<"r16b">> /\ run.platform = "Linux"
     \/ UsualSelection(run.args)}

\* what an unpacked kit may hold in each directory the script lists
Dir(n) == [name |-> n, kind |-> "dir"]
File(n) == [name |-> n, kind |-> "file"]

Parents == {"toolchains", "cxx-stl", "stl_dir", "libs", "platforms", "api_dir"}

Universe(parent) ==
  CASE parent = "toolchains" ->
         {Dir(<<"arm", "-4.9">>), Dir(<<"llvm">>), Dir(<<"x86", "-4.9">>)}
    [] parent = "cxx-stl" ->
         {Dir(<<"gnu-libstdc++">>), Dir(<<"llvm-libc++">>), Dir(<<"llvm-libc++abi">>)}
    [] parent = "stl_dir" ->
         {Dir(<<"4.9">>), Dir(<<"4.8">>), File(<<"Android.mk">>)}
    [] parent = "libs" ->
         {Dir(<<"armeabi">>), Dir(<<"x86">>), File(<<"README">>)}
    [] parent = "platforms" ->
         {Dir(<<"android-", "9">>), Dir(<<"android-", "21">>), File(<<"README">>)}
    [] parent = "api_dir" ->
         {Dir(<<"arch-", "arm">>), Dir(<<"arch-", "x86">>), File(<<"NOTICE">>)}

Contents(parent) == {c \in SUBSET Universe(parent) : Cardinality(c) =< MaxList}

Names(c) == {e.name : e \in c}

\* os.listdir: every entry of the directory, in any order; an entry may be
\* reported more than once (the case the 'Already found' checks are for)
listdir(c) ==
  UNION {{s \in [1..n -> Names(c)] : Range(s) = Names(c)} : n \in 0..MaxList}

----------------------------------------------------------------------------
(* File system primitives *)

\* os.path.exists / os.path.isdir of <parent>/<n> in a tree
exists(tree, parent, n) == \E e \in tree[parent] : e.name = n
isdir(tree, parent, n) == \E e \in tree[parent] : e.name = n /\ e.kind = "dir"

\* shutil.rmtree raises on a missing path and on a plain file
rmtree_ok(parent, n) == isdir(fs, parent, n)
\* seeded fault: the deletion does nothing
removed_nothing(parent, n) == fs

\* the tree once the entry is gone
removed(parent, n) == [fs EXCEPT ![parent] = {e \in @ : e.name # n}]

----------------------------------------------------------------------------
(* The script *)

\* the script is at label l and has not ended
at(l) == pc = l /\ exit_msg = ""

\* sys.exit(msg), or an uncaught exception named by msg: the script ends where it is
Exit(msg) == exit_msg' = msg /\ pc' = pc

\* seeded fault: no flag is ever found missing
falsy_never(v) == FALSE

\* `not v` of a flag
falsy(v) == v = None

\* seeded fault: the membership test always passes
in_list_always(n, l) == TRUE

\* `n in l` of a name and a listing
in_list(n, l) == n \in Range(l)

\* lines 154-164: the flags every run needs
CheckArgs ==
  /\ at("args")
  /\ IF falsy(args.toolchain) THEN Exit("--toolchain is required")
     ELSE IF falsy(args.stl) THEN Exit("--stl is required")
     ELSE IF falsy(args.api_level) THEN Exit("--api-level is required")
     ELSE IF falsy(args.arch_name) THEN Exit("--arch-name is required")
     ELSE pc' = "dirs" /\ exit_msg' = exit_msg
  /\ UNCHANGED <<args, platform_system, url, sha1, local_file, i, unpacked, fs,
                 toolchain, stl_suffix, toolchains_list, stl_list, versions_list,
                 abi_list, api_list, arch_list, x, toolchain_found, stl_found,
                 found, android_pruned_name, pruned_archive>>

\* str(args.ndk_version)
str(v) == IF v = None THEN <<"None">> ELSE v

\* lines 166-198: working directories, the unpack directory wiped, the name started
Setup ==
  /\ at("dirs")
  /\ unpacked' = FALSE
  /\ fs' = [p \in Parents |-> {}]
  /\ android_pruned_name' = <<"android-ndk-">> \o str(args.ndk_version)
  /\ pc' = "platform"
  /\ UNCHANGED <<exit_msg, args, platform_system, url, sha1, local_file, i,
                 toolchain, stl_suffix, toolchains_list, stl_list, versions_list,
                 abi_list, api_list, arch_list, x, toolchain_found, stl_found,
                 found, pruned_archive>>

\* what get_*_info returns when it falls through to sys.exit
UnknownNdk == [url |-> None, sha1 |-> ""]

get_darwin_info(ndk_version) ==
  CASE ndk_version = <<"r10e">> ->
         [url |-> <<"http://dl.google.com/android/ndk/android-ndk-r10e-darwin-x86_64", ".bin">>,
          sha1 |-> "b57c2b9213251180dcab794352bfc9a241bf2557"]
    [] ndk_version = <<"r11c">> ->
         [url |-> <<"http://dl.google.com/android/repository/android-ndk-r11c-darwin-x86_64", ".zip">>,
          sha1 |-> "4ce8e7ed8dfe08c5fe58aedf7f46be2a97564696"]
    [] ndk_version = <<"r15c">> ->
         [url |-> <<"https://dl.google.com/android/repository/android-ndk-r15c-darwin-x86_64", ".zip">>,
          sha1 |-> "ea4b5d76475db84745aa8828000d009625fc1f98"]
    [] OTHER -> UnknownNdk

get_linux_info(ndk_version) ==
  CASE ndk_version = <<"r10e">> ->
         [url |-> <<"http://dl.google.com/android/ndk/android-ndk-r10e-linux-x86_64", ".bin">>,
          sha1 |-> "c685e5f106f8daa9b5449d0a4f21ee8c0afcb2f6"]
    [] ndk_version = <<"r11c">> ->
         [url |-> <<"http://dl.google.com/android/repository/android-ndk-r11c-linux-x86_64", ".zip">>,
          sha1 |-> "de5ce9bddeee16fb6af2b9117e9566352aa7e279"]
    [] ndk_version = <<"r15c">> ->
         [url |-> <<"https://dl.google.com/android/repository/android-ndk-r15c-linux-x86_64", ".zip">>,
          sha1 |-> "0bf02d4e8b85fd770fd7b9b2cdec57f9441f27a2"]
    [] ndk_version = <<"r16b">> ->
         [url |-> <<"https://dl.google.com/android/repository/android-ndk-r16b-linux-x86_64", ".zip">>,
          sha1 |-> "42aa43aae89a50d1c66c3f9fdecd676936da6128"]
    [] OTHER -> UnknownNdk

Init ==
  /\ at("args")
  /\ exit_msg = ""
  /\ \E run \in Runs : args = run.args /\ platform_system = run.platform
  /\ url = None /\ sha1 = ""
  /\ local_file \in {"absent", BadDigest,
                     get_linux_info(args.ndk_version).sha1,
                     get_darwin_info(args.ndk_version).sha1}
  /\ i = 0
  /\ unpacked = FALSE
  /\ fs = [p \in Parents |-> {}]
  /\ toolchain = None /\ stl_suffix = None
  /\ toolchains_list = <<>> /\ stl_list = <<>> /\ versions_list = <<>>
  /\ abi_list = <<>> /\ api_list = <<>> /\ arch_list = <<>>
  /\ x = 0
  /\ toolchain_found = FALSE /\ stl_found = FALSE /\ found = FALSE
  /\ android_pruned_name = None
  /\ pruned_archive = None

\* lines 241-248: the download of this host platform
SelectInfo ==
  /\ at("platform")
  /\ IF platform_system \in {"Darwin", "Linux"}
     THEN LET info == IF platform_system = "Darwin"
                      THEN get_darwin_info(args.ndk_version)
                      ELSE get_linux_info(args.ndk_version)
          IN IF info = UnknownNdk
             THEN Exit("Unknown NDK version") /\ UNCHANGED <<url, sha1>>
             ELSE /\ url' = info.url /\ sha1' = info.sha1
                  /\ pc' = "download" /\ exit_msg' = exit_msg
     ELSE Exit("Android supported only for Linux and OSX") /\ UNCHANGED <<url, sha1>>
  /\ UNCHANGED <<args, platform_system, local_file, i, unpacked, fs,
                 toolchain, stl_suffix, toolchains_list, stl_list, versions_list,
                 abi_list, api_list, arch_list, x, toolchain_found, stl_found,
                 found, android_pruned_name, pruned_archive>>

\* seeded fault: the digest is not compared
hash_match_any_file == local_file # "absent"

\* FileToDownload.hash_match: the file exists and its digest is the expected one
hash_match == local_file # "absent" /\ local_file = sha1

\* FileToDownload.download, lines 58-62
Download ==
  /\ at("download")
  /\ IF hash_match THEN pc' = "unpack" ELSE pc' = "real_file_download"
  /\ i' = 0
  /\ UNCHANGED <<exit_msg, args, platform_system, url, sha1, local_file, unpacked, fs,
                 toolchain, stl_suffix, toolchains_list, stl_list, versions_list,
                 abi_list, api_list, arch_list, x, toolchain_found, stl_found,
                 found, android_pruned_name, pruned_archive>>

max_retry == 3

\* real_file_download_once: what one attempt does to the local file.
\*   "refused"   the request fails before the file is opened
\*   "broken"    the transfer raises after the file was opened for writing
\*   "complete"  every chunk is written; the content is the server's
Attempts == {"refused", "broken", "complete"}

\* one pass of the loop of real_file_download, lines 82-89
RealFileDownload ==
  /\ at("real_file_download")
  /\ i < max_retry
  /\ \E outcome \in Attempts :
       IF outcome = "complete"
       THEN /\ \E served \in {sha1, BadDigest} : local_file' = served
            /\ pc' = "assert" /\ UNCHANGED i
       ELSE /\ local_file' = IF outcome = "broken" THEN BadDigest ELSE local_file
            /\ i' = i + 1 /\ UNCHANGED pc
  /\ UNCHANGED <<exit_msg, args, platform_system, url, sha1, unpacked, fs,
                 toolchain, stl_suffix, toolchains_list, stl_list, versions_list,
                 abi_list, api_list, arch_list, x, toolchain_found, stl_found,
                 found, android_pruned_name, pruned_archive>>

\* line 90: the loop ran out
DownloadFailed ==
  /\ at("real_file_download")
  /\ i >= max_retry
  /\ Exit("Download failed")
  /\ UNCHANGED <<args, platform_system, url, sha1, local_file, i, unpacked, fs,
                 toolchain, stl_suffix, toolchains_list, stl_list, versions_list,
                 abi_list, api_list, arch_list, x, toolchain_found, stl_found,
                 found, android_pruned_name, pruned_archive>>

\* line 63: assert(self.hash_match() == True)
AssertHash ==
  /\ at("assert")
  /\ IF hash_match THEN pc' = "unpack" /\ exit_msg' = exit_msg /\ i' = 0
     ELSE Exit("AssertionError") /\ UNCHANGED i
  /\ UNCHANGED <<args, platform_system, url, sha1, local_file, unpacked, fs,
                 toolchain, stl_suffix, toolchains_list, stl_list, versions_list,
                 abi_list, api_list, arch_list, x, toolchain_found, stl_found,
                 found, android_pruned_name, pruned_archive>>

\* FileToDownload.unpack, lines 103-122; the extractor may fail
Unpack ==
  /\ at("unpack")
  /\ IF endswith(url, ".tar.gz") \/ endswith(url, ".zip") \/ endswith(url, ".bin")
     THEN \E extracted \in BOOLEAN :
            IF extracted
            THEN unpacked' = TRUE /\ pc' = "original_info" /\ exit_msg' = exit_msg
            ELSE Exit("extractor failed") /\ UNCHANGED unpacked
     ELSE Exit("Unknown archive format") /\ UNCHANGED unpacked
  /\ UNCHANGED <<args, platform_system, url, sha1, local_file, i, fs,
                 toolchain, stl_suffix, toolchains_list, stl_list, versions_list,
                 abi_list, api_list, arch_list, x, toolchain_found, stl_found,
                 found, android_pruned_name, pruned_archive>>

\* lines 250-253: the sizes of the archive and of the unpacked tree are measured
OriginalInfo ==
  /\ at("original_info")
  /\ pc' = "toolchain_check"
  /\ UNCHANGED <<exit_msg, args, platform_system, url, sha1, local_file, i, unpacked,
                 fs, toolchain, stl_suffix, toolchains_list, stl_list, versions_list,
                 abi_list, api_list, arch_list, x, toolchain_found, stl_found, found,
                 android_pruned_name, pruned_archive>>

----------------------------------------------------------------------------
(* Selector resolution and the prunes *)

\* variables no prune touches
fetched == <<args, platform_system, url, sha1, local_file, i, unpacked, pruned_archive>>

\* what stl_suffix_by_name stands for when it ends the run instead of returning
SysExit == <<"sys.exit">>

\* seeded fault: c++_shared left out of the last test
stl_suffix_without_cxx_shared(stl_name) ==
  IF stl_name = <<"system">> \/ stl_name = <<"system_re">> THEN <<"system">>
  ELSE IF stl_name = <<"gabi++_shared">> \/ stl_name = <<"gabi++_static">> THEN <<"gabi++">>
  ELSE IF stl_name = <<"stlport_shared">> \/ stl_name = <<"stlport_static">> THEN <<"stlport">>
  ELSE IF stl_name = <<"gnustl_shared">> \/ stl_name = <<"gnustl_static">> THEN <<"gnu-libstdc++">>
  ELSE IF stl_name = <<"c++_static">> THEN <<"llvm-libc++">>
  ELSE SysExit

stl_suffix_by_name(stl_name) ==
  IF stl_name = <<"system">> \/ stl_name = <<"system_re">> THEN <<"system">>
  ELSE IF stl_name = <<"gabi++_shared">> \/ stl_name = <<"gabi++_static">> THEN <<"gabi++">>
  ELSE IF stl_name = <<"stlport_shared">> \/ stl_name = <<"stlport_static">> THEN <<"stlport">>
  ELSE IF stl_name = <<"gnustl_shared">> \/ stl_name = <<"gnustl_static">> THEN <<"gnu-libstdc++">>
  ELSE IF stl_name = <<"c++_static">> \/ stl_name = <<"c++_shared">> THEN <<"llvm-libc++">>
  ELSE SysExit

\* lines 255-257
rewritten_toolchain ==
  IF args.compiler_version = <<"clang">>
  THEN replace(args.toolchain, "-clang", "-4.9")
  ELSE args.toolchain

\* lines 255-266: the toolchain name and the listing of toolchains/
ToolchainCheck ==
  /\ at("toolchain_check")
  /\ toolchain' = rewritten_toolchain
  /\ \E c \in Contents("toolchains") : \E l \in listdir(c) :
       /\ fs' = [fs EXCEPT !["toolchains"] = c]
       /\ toolchains_list' = l
       /\ IF ~in_list(toolchain', l)
          THEN Exit("Toolchain is not in list")
          ELSE pc' = "stl_check" /\ exit_msg' = exit_msg
  /\ UNCHANGED <<fetched, stl_suffix, stl_list, versions_list, abi_list, api_list,
                 arch_list, x, toolchain_found, stl_found, found, android_pruned_name>>

\* lines 268-279: the STL directory name and the listing of sources/cxx-stl/
StlCheck ==
  /\ at("stl_check")
  /\ IF stl_suffix_by_name(args.stl) = SysExit
     THEN /\ Exit("Unexpected --stl")
          /\ UNCHANGED <<fs, stl_suffix, stl_list, x, toolchain_found>>
     ELSE /\ stl_suffix' = stl_suffix_by_name(args.stl)
          /\ \E c \in Contents("cxx-stl") : \E l \in listdir(c) :
               /\ fs' = [fs EXCEPT !["cxx-stl"] = c]
               /\ stl_list' = l
               /\ IF ~in_list(stl_suffix', l)
                  THEN Exit("STL is not in list") /\ UNCHANGED <<x, toolchain_found>>
                  ELSE /\ pc' = "toolchain_loop" /\ exit_msg' = exit_msg
                       /\ x' = 1 /\ toolchain_found' = FALSE
  /\ UNCHANGED <<fetched, toolchain, toolchains_list, versions_list, abi_list, api_list,
                 arch_list, stl_found, found, android_pruned_name>>

\* seeded fault: llvm/ is spared whatever the compiler
keep_llvm_always(name) == name = <<"llvm">>

\* line 283: llvm/ stays next to the toolchain when the compiler is clang
keep_llvm(name) == args.compiler_version = <<"clang">> /\ name = <<"llvm">>

\* lines 280-295: one pass of the loop over toolchains_list
ToolchainLoop ==
  /\ at("toolchain_loop")
  /\ x =< Len(toolchains_list)
  /\ LET name == toolchains_list[x]
         set_toolchain_found == (name = toolchain)
         remove_dir == ~set_toolchain_found /\ ~keep_llvm(name)
     IN IF remove_dir /\ ~rmtree_ok("toolchains", name)
        THEN Exit("rmtree raised") /\ UNCHANGED <<fs, x, toolchain_found>>
        ELSE IF set_toolchain_found /\ toolchain_found
        THEN Exit("Already found") /\ UNCHANGED <<fs, x, toolchain_found>>
        ELSE /\ fs' = IF remove_dir THEN removed("toolchains", name) ELSE fs
             /\ toolchain_found' = (toolchain_found \/ set_toolchain_found)
             /\ x' = x + 1
             /\ UNCHANGED <<pc, exit_msg>>
  /\ UNCHANGED <<fetched, toolchain, stl_suffix, toolchains_list, stl_list, versions_list,
                 abi_list, api_list, arch_list, stl_found, found, android_pruned_name>>

\* lines 297-303
ToolchainEnd ==
  /\ at("toolchain_loop")
  /\ x > Len(toolchains_list)
  /\ IF ~toolchain_found
     THEN Exit("Toolchain not found") /\ UNCHANGED <<android_pruned_name, x, stl_found>>
     ELSE /\ android_pruned_name' = format_dash(android_pruned_name, toolchain)
          /\ pc' = "stl_loop" /\ exit_msg' = exit_msg
          /\ x' = 1 /\ stl_found' = FALSE
  /\ toolchains_list' = <<>>
  /\ UNCHANGED <<fetched, fs, toolchain, stl_suffix, stl_list,
                 versions_list, abi_list, api_list, arch_list, toolchain_found, found>>

\* line 307: llvm-libc++abi/ stays next to llvm-libc++
keep_libcxxabi(name) == stl_suffix = <<"llvm-libc++">> /\ name = <<"llvm-libc++abi">>

\* lines 304-319: one pass of the loop over stl_list
StlLoop ==
  /\ at("stl_loop")
  /\ x =< Len(stl_list)
  /\ LET name == stl_list[x]
         set_stl_found == (name = stl_suffix)
         remove_dir == ~set_stl_found /\ ~keep_libcxxabi(name)
     IN IF remove_dir /\ ~rmtree_ok("cxx-stl", name)
        THEN Exit("rmtree raised") /\ UNCHANGED <<fs, x, stl_found>>
        ELSE IF set_stl_found /\ stl_found
        THEN Exit("Already found") /\ UNCHANGED <<fs, x, stl_found>>
        ELSE /\ fs' = IF remove_dir THEN removed("cxx-stl", name) ELSE fs
             /\ stl_found' = (stl_found \/ set_stl_found)
             /\ x' = x + 1
             /\ UNCHANGED <<pc, exit_msg>>
  /\ UNCHANGED <<fetched, toolchain, stl_suffix, toolchains_list, stl_list, versions_list,
                 abi_list, api_list, arch_list, toolchain_found, found, android_pruned_name>>

\* seeded fault: the sub-prune is never entered
never_version_and_abi == FALSE

\* line 326: the compiler version and the ABI are pruned under gnu-libstdc++ only
needs_version_and_abi == stl_suffix = <<"gnu-libstdc++">>

\* lines 321-326
StlEnd ==
  /\ at("stl_loop")
  /\ x > Len(stl_list)
  /\ IF ~stl_found
     THEN Exit("STL not found") /\ UNCHANGED android_pruned_name
     ELSE /\ android_pruned_name' = format_dash(android_pruned_name, stl_suffix)
          /\ pc' = IF needs_version_and_abi THEN "version_check" ELSE "api_check"
          /\ exit_msg' = exit_msg
  /\ stl_list' = <<>>
  /\ UNCHANGED <<fetched, fs, toolchain, stl_suffix, toolchains_list, x,
                 versions_list, abi_list, api_list, arch_list, toolchain_found,
                 stl_found, found>>

\* line 327
gcc_version == args.compiler_version

\* lines 327-337: only under gnu-libstdc++; stl_dir is sources/cxx-stl/gnu-libstdc++
VersionCheck ==
  /\ at("version_check")
  /\ IF falsy(gcc_version)
     THEN /\ Exit("Expected --compiler-version")
          /\ UNCHANGED <<fs, versions_list, x, found>>
     ELSE \E c \in Contents("stl_dir") :
            /\ fs' = [fs EXCEPT !["stl_dir"] = c]
            /\ IF ~exists(fs', "stl_dir", gcc_version)
               THEN /\ Exit("Directory not exists (--compiler-version)")
                    /\ UNCHANGED <<versions_list, x, found>>
               ELSE \E l \in listdir(c) :
                      /\ versions_list' = l
                      /\ IF ~in_list(gcc_version, l)
                         THEN Exit("not found in versions_list") /\ UNCHANGED <<x, found>>
                         ELSE /\ pc' = "version_loop" /\ exit_msg' = exit_msg
                              /\ x' = 1 /\ found' = FALSE
  /\ UNCHANGED <<fetched, toolchain, stl_suffix, toolchains_list, stl_list, abi_list,
                 api_list, arch_list, toolchain_found, stl_found, android_pruned_name>>

\* lines 338-349: one pass of the loop over versions_list
VersionLoop ==
  /\ at("version_loop")
  /\ x =< Len(versions_list)
  /\ LET name == versions_list[x]
     IN IF name = gcc_version
        THEN IF found
             THEN Exit("Already found") /\ UNCHANGED <<fs, x, found>>
             ELSE found' = TRUE /\ x' = x + 1 /\ UNCHANGED <<pc, exit_msg, fs>>
        ELSE /\ fs' = IF isdir(fs, "stl_dir", name) THEN removed("stl_dir", name) ELSE fs
             /\ x' = x + 1
             /\ UNCHANGED <<pc, exit_msg, found>>
  /\ UNCHANGED <<fetched, toolchain, stl_suffix, toolchains_list, stl_list, versions_list,
                 abi_list, api_list, arch_list, toolchain_found, stl_found,
                 android_pruned_name>>

\* lines 350-353
VersionEnd ==
  /\ at("version_loop")
  /\ x > Len(versions_list)
  /\ IF ~found
     THEN Exit("Not found") /\ UNCHANGED android_pruned_name
     ELSE /\ android_pruned_name' = format_dash(android_pruned_name, gcc_version)
          /\ pc' = "abi_check" /\ exit_msg' = exit_msg
  /\ versions_list' = <<>>
  /\ UNCHANGED <<fetched, fs, toolchain, stl_suffix, toolchains_list, stl_list, x,
                 abi_list, api_list, arch_list, toolchain_found,
                 stl_found, found>>

\* lines 355-365: libs_dir is <stl_dir>/<gcc_version>/libs
AbiCheck ==
  /\ at("abi_check")
  /\ IF falsy(args.abi_name)
     THEN /\ Exit("Expected --abi-name")
          /\ UNCHANGED <<fs, abi_list, x, found>>
     ELSE \E c \in Contents("libs") :
            /\ fs' = [fs EXCEPT !["libs"] = c]
            /\ IF ~exists(fs', "libs", args.abi_name)
               THEN /\ Exit("Directory not exists (--abi-name)")
                    /\ UNCHANGED <<abi_list, x, found>>
               ELSE \E l \in listdir(c) :
                      /\ abi_list' = l
                      /\ IF ~in_list(args.abi_name, l)
                         THEN Exit("not found in abi_list") /\ UNCHANGED <<x, found>>
                         ELSE /\ pc' = "abi_loop" /\ exit_msg' = exit_msg
                              /\ x' = 1 /\ found' = FALSE
  /\ UNCHANGED <<fetched, toolchain, stl_suffix, toolchains_list, stl_list, versions_list,
                 api_list, arch_list, toolchain_found, stl_found, android_pruned_name>>

\* lines 366-375: one pass of the loop over abi_list
AbiLoop ==
  /\ at("abi_loop")
  /\ x =< Len(abi_list)
  /\ LET name == abi_list[x]
     IN IF name = args.abi_name
        THEN IF found
             THEN Exit("Already found") /\ UNCHANGED <<fs, x, found>>
             ELSE found' = TRUE /\ x' = x + 1 /\ UNCHANGED <<pc, exit_msg, fs>>
        ELSE IF ~rmtree_ok("libs", name)
        THEN Exit("rmtree raised") /\ UNCHANGED <<fs, x, found>>
        ELSE /\ fs' = removed("libs", name)
             /\ x' = x + 1
             /\ UNCHANGED <<pc, exit_msg, found>>
  /\ UNCHANGED <<fetched, toolchain, stl_suffix, toolchains_list, stl_list, versions_list,
                 abi_list, api_list, arch_list, toolchain_found, stl_found,
                 android_pruned_name>>

\* lines 376-378
AbiEnd ==
  /\ at("abi_loop")
  /\ x > Len(abi_list)
  /\ IF ~found
     THEN Exit("Not found") /\ UNCHANGED android_pruned_name
     ELSE /\ android_pruned_name' = format_dash(android_pruned_name, args.abi_name)
          /\ pc' = "api_check" /\ exit_msg' = exit_msg
  /\ abi_list' = <<>>
  /\ UNCHANGED <<fetched, fs, toolchain, stl_suffix, toolchains_list, stl_list, x,
                 versions_list, api_list, arch_list, toolchain_found,
                 stl_found, found>>

\* line 380: 'android-{}'.format(args.api_level)
android_api == <<"android-">> \o args.api_level

\* lines 380-388: the listing of platforms/
ApiCheck ==
  /\ at("api_check")
  /\ \E c \in Contents("platforms") :
       /\ fs' = [fs EXCEPT !["platforms"] = c]
       /\ IF ~exists(fs', "platforms", android_api)
          THEN /\ Exit("Directory not found (--api-level)")
               /\ UNCHANGED <<api_list, x, found>>
          ELSE \E l \in listdir(c) :
                 /\ api_list' = l
                 /\ IF ~in_list(android_api, l)
                    THEN Exit("not found in api_list") /\ UNCHANGED <<x, found>>
                    ELSE /\ pc' = "api_loop" /\ exit_msg' = exit_msg
                         /\ x' = 1 /\ found' = FALSE
  /\ UNCHANGED <<fetched, toolchain, stl_suffix, toolchains_list, stl_list, versions_list,
                 abi_list, arch_list, toolchain_found, stl_found, android_pruned_name>>

\* lines 389-400: one pass of the loop over api_list
ApiLoop ==
  /\ at("api_loop")
  /\ x =< Len(api_list)
  /\ LET name == api_list[x]
     IN IF ~isdir(fs, "platforms", name)
        THEN x' = x + 1 /\ UNCHANGED <<pc, exit_msg, fs, found>>
        ELSE IF name = android_api
        THEN IF found
             THEN Exit("Already found") /\ UNCHANGED <<fs, x, found>>
             ELSE found' = TRUE /\ x' = x + 1 /\ UNCHANGED <<pc, exit_msg, fs>>
        ELSE /\ fs' = removed("platforms", name)
             /\ x' = x + 1
             /\ UNCHANGED <<pc, exit_msg, found>>
  /\ UNCHANGED <<fetched, toolchain, stl_suffix, toolchains_list, stl_list, versions_list,
                 abi_list, api_list, arch_list, toolchain_found, stl_found,
                 android_pruned_name>>

\* lines 401-404
ApiEnd ==
  /\ at("api_loop")
  /\ x > Len(api_list)
  /\ IF ~found
     THEN Exit("API not found") /\ UNCHANGED android_pruned_name
     ELSE /\ android_pruned_name' = format_dash(android_pruned_name, android_api)
          /\ pc' = "arch_check" /\ exit_msg' = exit_msg
  /\ api_list' = <<>>
  /\ UNCHANGED <<fetched, fs, toolchain, stl_suffix, toolchains_list, stl_list, x,
                 versions_list, abi_list, arch_list, toolchain_found,
                 stl_found, found>>

\* line 406: 'arch-{}'.format(args.arch_name)
android_arch == <<"arch-">> \o args.arch_name

\* lines 406-416: the listing of platforms/<android_api>/
ArchCheck ==
  /\ at("arch_check")
  /\ \E c \in Contents("api_dir") :
       /\ fs' = [fs EXCEPT !["api_dir"] = c]
       /\ IF ~exists(fs', "api_dir", android_arch)
          THEN /\ Exit("Directory not found (--arch-name)")
               /\ UNCHANGED <<arch_list, x, found>>
          ELSE \E l \in listdir(c) :
                 /\ arch_list' = l
                 /\ IF ~in_list(android_arch, l)
                    THEN Exit("not found in arch_list") /\ UNCHANGED <<x, found>>
                    ELSE /\ pc' = "arch_loop" /\ exit_msg' = exit_msg
                         /\ x' = 1 /\ found' = FALSE
  /\ UNCHANGED <<fetched, toolchain, stl_suffix, toolchains_list, stl_list, versions_list,
                 abi_list, api_list, toolchain_found, stl_found, android_pruned_name>>

\* lines 417-428: one pass of the loop over arch_list
ArchLoop ==
  /\ at("arch_loop")
  /\ x =< Len(arch_list)
  /\ LET name == arch_list[x]
     IN IF name = android_arch
        THEN IF found
             THEN Exit("Already found") /\ UNCHANGED <<fs, x, found>>
             ELSE found' = TRUE /\ x' = x + 1 /\ UNCHANGED <<pc, exit_msg, fs>>
        ELSE IF ~exists(fs, "api_dir", name)
        THEN Exit("os.remove raised") /\ UNCHANGED <<fs, x, found>>
        ELSE /\ fs' = removed("api_dir", name)
             /\ x' = x + 1
             /\ UNCHANGED <<pc, exit_msg, found>>
  /\ UNCHANGED <<fetched, toolchain, stl_suffix, toolchains_list, stl_list, versions_list,
                 abi_list, api_list, arch_list, toolchain_found, stl_found,
                 android_pruned_name>>

\* lines 429-434
ArchEnd ==
  /\ at("arch_loop")
  /\ x > Len(arch_list)
  /\ IF ~found
     THEN Exit("Not found") /\ UNCHANGED android_pruned_name
     ELSE /\ android_pruned_name' =
               format_dash(format_dash(android_pruned_name, android_arch),
                           <<platform_system>>) \o <<".tar.gz">>
          /\ pc' = "archive" /\ exit_msg' = exit_msg
  /\ arch_list' = <<>>
  /\ UNCHANGED <<fetched, fs, toolchain, stl_suffix, toolchains_list, stl_list, x,
                 versions_list, abi_list, api_list, toolchain_found,
                 stl_found, found>>

\* lines 436-442: the pruned tree is packed into _pruned/<android_pruned_name>
Archive ==
  /\ at("archive")
  /\ pruned_archive' = android_pruned_name
  /\ pc' = "report"
  /\ UNCHANGED <<exit_msg, args, platform_system, url, sha1, local_file, i, unpacked,
                 fs, toolchain, stl_suffix, toolchains_list, stl_list, versions_list,
                 abi_list, api_list, arch_list, x, toolchain_found, stl_found, found,
                 android_pruned_name>>

\* lines 444-452: the sizes are printed and the script ends
Report ==
  /\ at("report")
  /\ pc' = "done"
  /\ UNCHANGED <<exit_msg, fetched, fs, toolchain, stl_suffix, toolchains_list, stl_list,
                 versions_list, abi_list, api_list, arch_list, x, toolchain_found,
                 stl_found, found, android_pruned_name>>

Next ==
  \/ CheckArgs \/ Setup \/ SelectInfo
  \/ Download \/ RealFileDownload \/ DownloadFailed \/ AssertHash \/ Unpack \/ OriginalInfo
  \/ ToolchainCheck \/ StlCheck \/ ToolchainLoop \/ ToolchainEnd \/ StlLoop \/ StlEnd
  \/ VersionCheck \/ VersionLoop \/ VersionEnd \/ AbiCheck \/ AbiLoop \/ AbiEnd
  \/ ApiCheck \/ ApiLoop \/ ApiEnd \/ ArchCheck \/ ArchLoop \/ ArchEnd
  \/ Archive \/ Report

Spec == Init /\ [][Next]_vars

----------------------------------------------------------------------------
(* Vocabulary of the properties *)

\* the pruning dimensions, in the order the script prunes them
Dims == {"toolchain", "stl", "version", "abi", "api", "arch"}

parent_of(d) ==
  CASE d = "toolchain" -> "toolchains" [] d = "stl" -> "cxx-stl"
    [] d = "version" -> "stl_dir"      [] d = "abi" -> "libs"
    [] d = "api" -> "platforms"        [] d = "arch" -> "api_dir"

list_of(d) ==
  CASE d = "toolchain" -> toolchains_list [] d = "stl" -> stl_list
    [] d = "version" -> versions_list     [] d = "abi" -> abi_list
    [] d = "api" -> api_list              [] d = "arch" -> arch_list

keep_of(d) ==
  CASE d = "toolchain" -> toolchain      [] d = "stl" -> stl_suffix
    [] d = "version" -> gcc_version      [] d = "abi" -> args.abi_name
    [] d = "api" -> android_api          [] d = "arch" -> android_arch

found_of(d) ==
  CASE d = "toolchain" -> toolchain_found [] d = "stl" -> stl_found [] OTHER -> found

check_pc(d) == d \o "_check"
loop_pc(d) == d \o "_loop"

\* the --stl names that select gnu-libstdc++ and llvm-libc++
GnuStl == {<<"gnustl_shared">>, <<"gnustl_static">>}
LibcxxStl == {<<"c++_static">>, <<"c++_shared">>}

\* the entries a dimension spares although they are not the selection
exempt_of(d) ==
  CASE d = "toolchain" -> IF args.compiler_version = <<"clang">> THEN {<<"llvm">>} ELSE {}
    [] d = "stl" -> IF args.stl \in LibcxxStl THEN {<<"llvm-libc++abi">>} ELSE {}
    [] OTHER -> {}

\* the names of a directory that are not directories
plain_files(parent) == {e.name : e \in {u \in Universe(parent) : u.kind = "file"}}

\* the loop of dimension d has run to its end and has seen the selection: the
\* prune of d has succeeded (the listing is still at hand in this state)
LoopDone(d) ==
  /\ at(loop_pc(d))
  /\ x > Len(list_of(d))
  /\ found_of(d)

\* the run ended in failure inside dimension d (its checks or its loop)
FailedIn(d) == pc \in {check_pc(d), loop_pc(d)} /\ exit_msg # ""

\* the steps of a run, numbered in the order of the pipeline
Stage(label) ==
  CASE label \in {"args", "dirs", "platform"} -> 0
    [] label \in {"download", "real_file_download", "assert"} -> 1
    [] label \in {"unpack", "original_info"} -> 2
    [] label \in {"toolchain_check", "stl_check"} -> 3
    [] label = "toolchain_loop" -> 4
    [] label = "stl_loop" -> 5
    [] label \in {"version_check", "version_loop"} -> 6
    [] label \in {"abi_check", "abi_loop"} -> 7
    [] label \in {"api_check", "api_loop"} -> 8
    [] label \in {"arch_check", "arch_loop"} -> 9
    [] label = "archive" -> 10
    [] label \in {"report", "done"} -> 11

stage_of(d) ==
  CASE d = "toolchain" -> 4 [] d = "stl" -> 5 [] d = "version" -> 6
    [] d = "abi" -> 7 [] d = "api" -> 8 [] d = "arch" -> 9

----------------------------------------------------------------------------
(* C1: what a successful prune leaves in the parent directory *)

\* C1 as claimed: in every dimension, once the prune has succeeded the parent
\* directory holds exactly the kept entry and the exemption entries it listed;
\* no other entry, directory or plain file, is left.
C1_OnlyKeptAndExempt ==
  \A d \in Dims :
    LoopDone(d) =>
      Names(fs[parent_of(d)]) = {keep_of(d)} \cup (exempt_of(d) \cap Range(list_of(d)))

\* C1 amended: the same, except that the compiler-version and the API-level
\* prunes skip every entry that is not a directory, so the plain files listed
\* there are left as well.
C1_KeptExemptAndSkippedFiles ==
  \A d \in Dims :
    LoopDone(d) =>
      Names(fs[parent_of(d)]) =
        {keep_of(d)} \cup (exempt_of(d) \cap Range(list_of(d)))
          \cup (IF d \in {"version", "api"}
                THEN plain_files(parent_of(d)) \cap Range(list_of(d))
                ELSE {})

\* C1 witness: the API-level prune has succeeded on a listing with another
\* API-level directory (deleted) and a plain file (left)
C1_Witness ==
  /\ LoopDone("api")
  /\ {<<"android-", "21">>, <<"README">>} \subseteq Range(api_list)
  /\ Names(fs["platforms"]) = {<<"android-", "9">>, <<"README">>}

----------------------------------------------------------------------------
(* C2: not found, found twice, found once *)

NotFoundMessages ==
  {"Toolchain is not in list", "STL is not in list",
   "Directory not exists (--compiler-version)", "Directory not exists (--abi-name)",
   "Directory not found (--api-level)", "Directory not found (--arch-name)",
   "not found in versions_list", "not found in abi_list", "not found in api_list",
   "not found in arch_list", "Toolchain not found", "STL not found", "Not found",
   "API not found"}

\* C2 as claimed: in every dimension, a run that ends in the prune of a listing
\* that lacks the kept name ends with a not-found failure, one that ends in the
\* prune of a listing with the kept name more than once ends with 'Already
\* found', and the prune succeeds only on a listing with the kept name once.
C2_NotFoundAmbiguousOrOnce ==
  \A d \in Dims :
    /\ (FailedIn(d) /\ list_of(d) # <<>> /\ Count(list_of(d), keep_of(d)) = 0)
         => exit_msg \in NotFoundMessages
    /\ (FailedIn(d) /\ Count(list_of(d), keep_of(d)) > 1)
         => exit_msg = "Already found"
    /\ LoopDone(d) => Count(list_of(d), keep_of(d)) = 1

----------------------------------------------------------------------------
(* C3: the name of the output archive *)

dirs_of(parent) == {e.name : e \in {u \in fs[parent] : u.kind = "dir"}}

\* the compiler-version/ABI sub-prune was applied: its directories were read
SubPruned == fs["stl_dir"] # {} /\ fs["libs"] # {}

\* C3: a written archive is named android-ndk-<kit version>-<toolchain>-<stl>,
\* then -<compiler version>-<abi> exactly when the sub-prune was applied, then
\* -android-<api level>-arch-<arch>-<platform>.tar.gz; every segment is the name
\* of an entry its dimension left in the tree, and under the compiler version
\* 'clang' the toolchain segment is the name with '-clang' rewritten to '-4.9'.
C3_ArchiveName ==
  pruned_archive # None =>
    /\ \E t \in Names(fs["toolchains"]) \ exempt_of("toolchain") :
       \E s \in Names(fs["cxx-stl"]) \ exempt_of("stl") :
       \E a \in dirs_of("platforms") :
       \E r \in Names(fs["api_dir"]) :
       \E sub \in IF SubPruned
                  THEN {<<"-">> \o v \o <<"-">> \o b :
                          v \in dirs_of("stl_dir"), b \in Names(fs["libs"])}
                  ELSE {<<>>} :
         /\ pruned_archive =
              <<"android-ndk-">> \o args.ndk_version \o <<"-">> \o t \o <<"-">> \o s
                \o sub \o <<"-">> \o a \o <<"-">> \o r
                \o <<"-", platform_system, ".tar.gz">>
         /\ a = <<"android-">> \o args.api_level
         /\ r = <<"arch-">> \o args.arch_name
         /\ (args.compiler_version = <<"clang">> /\ args.toolchain = <<"arm", "-clang">>)
              => t = <<"arm", "-4.9">>
         /\ args.compiler_version # <<"clang">> => t = args.toolchain
    /\ SubPruned <=> args.stl \in GnuStl

\* C3 witness: the archive of a gnustl run, with the sub-prune segments
C3_Witness ==
  /\ pc = "done"
  /\ pruned_archive =
       <<"android-ndk-", "r16b", "-", "arm", "-4.9", "-", "gnu-libstdc++", "-", "4.9",
         "-", "armeabi", "-", "android-", "9", "-", "arch-", "arm", "-", "Linux",
         ".tar.gz">>

----------------------------------------------------------------------------
(* C4: the STL names *)

StlTable ==
  (<<"system">> :> <<"system">>) @@ (<<"system_re">> :> <<"system">>) @@
  (<<"gabi++_shared">> :> <<"gabi++">>) @@ (<<"gabi++_static">> :> <<"gabi++">>) @@
  (<<"stlport_shared">> :> <<"stlport">>) @@ (<<"stlport_static">> :> <<"stlport">>) @@
  (<<"gnustl_shared">> :> <<"gnu-libstdc++">>) @@
  (<<"gnustl_static">> :> <<"gnu-libstdc++">>) @@
  (<<"c++_static">> :> <<"llvm-libc++">>) @@ (<<"c++_shared">> :> <<"llvm-libc++">>)

\* the run has applied stl_suffix_by_name to --stl
Resolved == Stage(pc) > 3 \/ (pc = "stl_check" /\ exit_msg # "")

\* C4: once the run has resolved --stl, a name of the table has given the
\* directory name of the table and never the unknown-selector failure, and a
\* name outside the table has ended the run there with that failure; the
\* outcome is a function of the name.
C4_StlSuffixTable ==
  Resolved =>
    IF args.stl \in DOMAIN StlTable
    THEN stl_suffix = StlTable[args.stl] /\ exit_msg # "Unexpected --stl"
    ELSE pc = "stl_check" /\ exit_msg = "Unexpected --stl" /\ stl_suffix = None

\* C4 witness: a table name resolved, here by a run that went on to prune
C4_Witness ==
  /\ at("stl_loop")
  /\ args.stl = <<"c++_static">>
  /\ stl_suffix = <<"llvm-libc++">>

----------------------------------------------------------------------------
(* C5: required flags *)

AlwaysRequired == {"toolchain", "stl", "api_level", "arch_name"}

\* the message of the first missing flag, in the order the script tests them
FirstMissing ==
  IF args.toolchain = None THEN "--toolchain is required"
  ELSE IF args.stl = None THEN "--stl is required"
  ELSE IF args.api_level = None THEN "--api-level is required"
  ELSE "--arch-name is required"

\* C5: a run that lacks one of --toolchain, --stl, --api-level, --arch-name
\* never leaves the flag checks and ends there with the message of the first
\* missing flag; under a gnustl name a run without --compiler-version never
\* gets past the compiler-version check and one without --abi-name never past
\* the ABI check, each ending there with its own message; so an archive is
\* written only by a run that has every flag it requires.
C5_RequiredFlags ==
  /\ (\E f \in AlwaysRequired : args[f] = None) =>
       /\ pc = "args"
       /\ exit_msg \in {"", FirstMissing}
       /\ pruned_archive = None
  /\ (args.stl \in GnuStl /\ args.compiler_version = None) =>
       /\ Stage(pc) < 6 \/ pc = "version_check"
       /\ FailedIn("version") => exit_msg = "Expected --compiler-version"
       /\ pruned_archive = None
  /\ (args.stl \in GnuStl /\ args.abi_name = None) =>
       /\ Stage(pc) < 7 \/ pc = "abi_check"
       /\ FailedIn("abi") => exit_msg = "Expected --abi-name"
       /\ pruned_archive = None
  /\ (pc = "args" /\ exit_msg # "") => (\E f \in AlwaysRequired : args[f] = None)

\* C5 witness: a run without --compiler-version and --abi-name has finished,
\* its STL not being gnu-libstdc++
C5_Witness ==
  /\ pc = "done"
  /\ args.compiler_version = None /\ args.abi_name = None
  /\ pruned_archive # None

----------------------------------------------------------------------------
(* C6: the download *)

InDownload == pc \in {"download", "real_file_download", "assert"}

\* the calls of real_file_download_once made so far by a download that failed
attempts_made == IF pc = "assert" THEN i + 1 ELSE i

\* C6 as claimed: the download makes at most max_retry attempts, fails only
\* once they are used up (an attempt that cannot retrieve and one that
\* retrieves the wrong content alike), and returns only on a matching file.
C6_FailsOnlyWhenExhausted ==
  /\ InDownload => attempts_made =< max_retry
  /\ (InDownload /\ exit_msg # "") => attempts_made = max_retry
  /\ Stage(pc) > 1 => local_file = sha1

\* C6 amended: the download makes at most max_retry attempts; it fails with
\* 'Download failed' only once max_retry attempts have raised; an attempt that
\* completes ends the retries, and wrong content then fails the assertion at
\* once, whatever attempts are left; it returns only on a matching file.
C6_RetriesOnlyOnException ==
  /\ InDownload => attempts_made =< max_retry
  /\ (InDownload /\ exit_msg # "") =>
       \/ exit_msg = "Download failed" /\ pc = "real_file_download" /\ i = max_retry
       \/ exit_msg = "AssertionError" /\ pc = "assert" /\ local_file # sha1
  /\ Stage(pc) > 1 => local_file = sha1

\* C6 witness: wrong content from the first attempt has failed the assertion
C6_Witness ==
  /\ pc = "assert" /\ exit_msg = "AssertionError"
  /\ i = 0
  /\ local_file = BadDigest

----------------------------------------------------------------------------
(* C7: the order of the steps *)

\* the step that follows a step of the pipeline
NextStage(label) ==
  CASE Stage(label) = 5 -> IF args.stl \in GnuStl THEN 6 ELSE 8
    [] Stage(label) = 11 -> 11
    [] OTHER -> Stage(label) + 1

\* the step deletes an entry of a parent directory
Deletes(parent) == fs'[parent] # fs[parent] /\ fs'[parent] \subseteq fs[parent]

\* the directory of dimension d is pruned: the selection is there and nothing
\* else but what the prune of d spares
Pruned(d) ==
  /\ keep_of(d) \in Names(fs[parent_of(d)])
  /\ Names(fs[parent_of(d)]) \subseteq
       {keep_of(d)} \cup exempt_of(d)
         \cup (IF d \in {"version", "api"} THEN plain_files(parent_of(d)) ELSE {})

\* the dimensions a run prunes
Applicable == IF args.stl \in GnuStl THEN Dims ELSE Dims \ {"version", "abi"}

\* C7: every step of a run stays in its pipeline step or moves to the next one
\* (fetch, unpack, selector resolution, toolchain, STL, then compiler version
\* and ABI under gnu-libstdc++ only, API level, architecture, archive, report);
\* an entry of a dimension is deleted only in the loop of that dimension, and
\* then every earlier applicable dimension is already pruned; the archive is
\* written only with every applicable dimension pruned, and never by a run
\* that has failed.
C7_PipelineOrder ==
  [][/\ Stage(pc') \in {Stage(pc), NextStage(pc)}
     /\ Stage(pc') \in {6, 7} => args.stl \in GnuStl
     /\ \A d \in Dims :
          Deletes(parent_of(d)) =>
            /\ pc = loop_pc(d) /\ pc' = pc
            /\ \A e \in Applicable : stage_of(e) < stage_of(d) => Pruned(e)
     /\ pruned_archive' # None =>
          /\ Stage(pc') = 11
          /\ \A d \in Applicable : Pruned(d)'
     /\ exit_msg' # "" => pruned_archive' = None
    ]_vars

\* C7 witness: a run under gnu-libstdc++ has gone through every step
C7_Witness ==
  /\ pc = "done" /\ exit_msg = ""
  /\ args.stl \in GnuStl
  /\ \A d \in Dims : Pruned(d)

----------------------------------------------------------------------------
(* C8: the exemptions *)

\* C8: once the toolchain prune has succeeded on a listing with llvm, llvm not
\* being the selection, llvm is left if and only if the compiler version is
\* 'clang'; once the STL prune has succeeded on a listing with llvm-libc++abi,
\* it is left if and only if the STL is llvm-libc++; and while or after the
\* loop of a dimension runs, the selection of that dimension is in the tree.
C8_Exemptions ==
  /\ (LoopDone("toolchain") /\ <<"llvm">> \in Range(toolchains_list)
        /\ toolchain # <<"llvm">>) =>
       (<<"llvm">> \in Names(fs["toolchains"]) <=> args.compiler_version = <<"clang">>)
  /\ (LoopDone("stl") /\ <<"llvm-libc++abi">> \in Range(stl_list)) =>
       (<<"llvm-libc++abi">> \in Names(fs["cxx-stl"]) <=> args.stl \in LibcxxStl)
  /\ \A d \in Dims :
       (pc = loop_pc(d) \/ (d \in Applicable /\ Stage(pc) > stage_of(d))) =>
         keep_of(d) \in Names(fs[parent_of(d)])

\* C8 witness: under clang the toolchain prune has deleted another toolchain
\* and left llvm
C8_Witness ==
  /\ LoopDone("toolchain")
  /\ args.compiler_version = <<"clang">>
  /\ {<<"llvm">>, <<"x86", "-4.9">>} \subseteq Range(toolchains_list)
  /\ Names(fs["toolchains"]) = {<<"arm", "-4.9">>, <<"llvm">>}

----------------------------------------------------------------------------
(* C9: a missing selector deletes nothing of its dimension *)

\* the entries of a parent directory are those its listing showed
AsListed(d) == Names(fs[parent_of(d)]) = Range(list_of(d))

\* C9: the loop of a dimension runs only on a listing that holds the
\* selector; a run that ends because the selector is missing from the
\* directory of dimension d ends in the checks of d, with that directory as
\* it was read; a run that ends on a missing toolchain, a missing STL or an
\* unknown STL name has deleted nothing: the directories read are as listed
\* and no other was touched; and no step puts a deleted entry back.
C9_MissingSelectorDeletesNothing ==
  [][/\ \A d \in Dims :
          /\ (pc' = loop_pc(d)) => keep_of(d)' \in Range(list_of(d)')
          /\ (FailedIn(d)' /\ keep_of(d)' \notin Names(fs'[parent_of(d)])) =>
               /\ pc' = check_pc(d)
               /\ \A p \in Parents : ~Deletes(p)
               /\ list_of(d)' # <<>> => AsListed(d)'
     /\ (exit_msg' \in {"Toolchain is not in list", "STL is not in list",
                        "Unexpected --stl"}) =>
          /\ AsListed("toolchain")'
          /\ exit_msg' = "STL is not in list" => AsListed("stl")'
          /\ \A p \in Parents \ {"toolchains", "cxx-stl"} : fs'[p] = {}
     /\ \A p \in Parents : fs[p] # {} => fs'[p] \subseteq fs[p]
    ]_vars

\* C9 witness: the API level is missing from platforms/ after the toolchain
\* and STL prunes have deleted their siblings; platforms/ is as it was found
C9_Witness ==
  /\ pc = "api_check" /\ exit_msg = "Directory not found (--api-level)"
  /\ Names(fs["platforms"]) = {<<"android-", "21">>, <<"README">>}
  /\ Names(fs["toolchains"]) = {<<"arm", "-4.9">>}
  /\ Names(fs["cxx-stl"]) = {<<"llvm-libc++">>}

----------------------------------------------------------------------------
(* C10: kit versions and host platforms *)

\* C10 as claimed: with a kit version of the choices of --ndk-version on Linux
\* or Darwin the run never ends with 'Unknown NDK version' and goes on to the
\* download; on another platform it ends before any download.
C10_EveryChoiceHasInfo ==
  /\ (args.ndk_version \in NdkVersionChoices /\ platform_system \in {"Linux", "Darwin"})
       => /\ exit_msg # "Unknown NDK version"
          /\ (pc = "platform" => exit_msg = "")
  /\ platform_system \notin {"Linux", "Darwin"} => Stage(pc) = 0

====
